---- MODULE Spec2Model ----
(***************************************************************************)
(* Model of src/agent.py: the adaptive scraper agent.                      *)
(*                                                                         *)
(* run_agent is a loop over attempt = 1..max_retries.  Each iteration      *)
(* fetches the page if html is still None, runs extract_products with the  *)
(* current selectors, returns the products when the list is non-empty and  *)
(* otherwise, when attempt < max_retries, asks ask_ai_to_fix for new       *)
(* selectors inside a try/except that swallows every Exception.            *)
(*                                                                         *)
(* Python values are modelled as records tagged by their type in field t,  *)
(* so that None, strings, numbers, lists and dicts stay distinguishable.   *)
(***************************************************************************)
EXTENDS Integers, Sequences, FiniteSets, TLC

VARIABLES
    max_retries,        \* run_agent parameter
    initial_selectors,  \* the caller's dict, passed to run_agent
    current_selectors,  \* local of run_agent
    html,               \* local of run_agent: None or the fetched text
    attempt,            \* loop variable of run_agent (0 before the loop)
    products,           \* local of run_agent: result of the last extract_products
    error,              \* local of run_agent: result of the last extract_products
    pc,                 \* position in run_agent
    returned,           \* value run_agent returned (Unset while running)
    fetchCalls,         \* history: number of fetch_webpage calls
    extractCalls,       \* history: number of extract_products calls
    oracleCalls,        \* history: number of ask_ai_to_fix calls
    repairFailures,     \* history: number of ask_ai_to_fix calls that raised
    lastCall,           \* history: the most recent collaborator call and its arguments
    docsGiven           \* history: the html values handed to extract_products / ask_ai_to_fix

vars == <<max_retries, initial_selectors, current_selectors, html, attempt,
          products, error, pc, returned, fetchCalls, extractCalls, oracleCalls,
          repairFailures, lastCall, docsGiven>>

-----------------------------------------------------------------------------
(* Bounds of the model *)

MaxRetriesBound == 3    \* max_retries ranges over 0..MaxRetriesBound
MaxDocLen == 2          \* number of candidate container elements in a page

-----------------------------------------------------------------------------
(* Python values *)

PyNone == [t |-> "None"]
Str(s) == [t |-> "str", s |-> s]
Int5 == [t |-> "int", s |-> "5"]
List(items) == [t |-> "list", items |-> items]
Dict(f) == [t |-> "dict", f |-> f]
Unset == [t |-> "unset"]

\* Python truthiness of the values used in conditions (agent.py:46, 134)
Truthy(v) ==
    CASE v.t = "None" -> FALSE
      [] v.t = "str"  -> v.s # ""
      [] v.t = "list" -> Len(v.items) > 0
      [] OTHER        -> TRUE

-----------------------------------------------------------------------------
(* Selectors and pages *)

\* CSS selectors that the selector engine compiles
Selectors == {"a", "b"}

Keys == {"container", "name", "price"}

\* soup.select / select_one compile the selector first; a value that is not
\* a string, or a string that is no selector (the empty string), raises.
Compiles(sel) == sel.t = "str" /\ sel.s \in Selectors

\* str.strip() on the raw text of an element (get_text(strip=True))
Strip(raw) ==
    CASE raw = " "   -> ""
      [] raw = " y " -> "y"
      [] OTHER       -> raw

Elem(raw) == [t |-> "elem", text |-> raw]

\* A container element: the selector it matches (tag) and, per selector, the
\* first matching descendant (select_one) or None.
ContainerPool ==
    { [tag |-> "a", kids |-> [s \in Selectors |-> IF s = "a" THEN Elem("x") ELSE Elem(" y ")]],
      [tag |-> "a", kids |-> [s \in Selectors |-> IF s = "a" THEN Elem("x") ELSE PyNone]],
      [tag |-> "a", kids |-> [s \in Selectors |-> IF s = "a" THEN Elem(" ") ELSE Elem("z")]],
      [tag |-> "b", kids |-> [s \in Selectors |-> IF s = "a" THEN Elem("w") ELSE Elem("z")]] }

SeqsUpTo(S, n) == UNION { [1..k -> S] : k \in 0..n }

\* The text fetch_webpage can return; the empty page is the empty string.
Pages == { [t |-> "str", elems |-> e] : e \in SeqsUpTo(ContainerPool, MaxDocLen) }

EmptyPage == [t |-> "str", elems |-> <<>>]

\* Rules a caller passes as initial_selectors
InitialRules == { Dict(f) : f \in [Keys -> {Str(s) : s \in Selectors}] }

-----------------------------------------------------------------------------
(* extract_products (agent.py:28-52) *)

\* Variant of NoFieldsMsg: both failures report the same text
NoFieldsMsgSame == "No containers found with that selector"

NoContainersMsg == "No containers found with that selector"
NoFieldsMsg == "Found containers but couldn't extract name/price"

Product(name, price) == [name |-> name, price |-> price]

\* soup.select(container_selector): the matching elements in document order
Select(page, sel) == SelectSeq(page.elems, LAMBDA e : e.tag = sel)

\* elem.get_text(strip=True) if elem else None  (agent.py:41, 44)
TextOrNone(elem) == IF elem.t = "None" THEN PyNone ELSE Str(Strip(elem.text))

\* Variant of CollectProducts: products.insert(0, ...) instead of append
RECURSIVE CollectProductsReversed(_, _, _)
CollectProductsReversed(containers, name_selector, price_selector) ==
    IF containers = <<>> THEN <<>>
    ELSE LET container == Head(containers)
             name  == TextOrNone(container.kids[name_selector])
             price == TextOrNone(container.kids[price_selector])
             rest  == CollectProductsReversed(Tail(containers), name_selector, price_selector)
         IN  IF Truthy(name) /\ Truthy(price)
             THEN rest \o <<Product(name.s, price.s)>>
             ELSE rest

\* the loop of agent.py:38-47 over the containers, in order
RECURSIVE CollectProducts(_, _, _)
CollectProducts(containers, name_selector, price_selector) ==
    IF containers = <<>> THEN <<>>
    ELSE LET container == Head(containers)
             name  == TextOrNone(container.kids[name_selector])
             price == TextOrNone(container.kids[price_selector])
             rest  == CollectProducts(Tail(containers), name_selector, price_selector)
         IN  IF Truthy(name) /\ Truthy(price)
             THEN <<Product(name.s, price.s)>> \o rest
             ELSE rest

Raised == [raised |-> TRUE, products |-> PyNone, error |-> PyNone]
Returned(p, e) == [raised |-> FALSE, products |-> p, error |-> e]

\* Variant of extract_products: the three selectors are compiled before the
\* containers are selected
extract_productsEager(page, container_selector, name_selector, price_selector) ==
    IF ~Compiles(container_selector) \/ ~Compiles(name_selector) \/ ~Compiles(price_selector)
    THEN Raised
    ELSE LET containers == Select(page, container_selector.s)
         IN  IF Len(containers) = 0
             THEN Returned(PyNone, Str(NoContainersMsg))
             ELSE LET found == CollectProducts(containers, name_selector.s, price_selector.s)
                  IN  IF Len(found) = 0
                      THEN Returned(PyNone, Str(NoFieldsMsg))
                      ELSE Returned(List(found), PyNone)

\* Variant of extract_products: without the check of agent.py:49-50
extract_productsNoEmptyCheck(page, container_selector, name_selector, price_selector) ==
    IF ~Compiles(container_selector) THEN Raised
    ELSE LET containers == Select(page, container_selector.s)
         IN  IF Len(containers) = 0
             THEN Returned(PyNone, Str(NoContainersMsg))
             ELSE IF ~Compiles(name_selector) \/ ~Compiles(price_selector)
             THEN Raised
             ELSE Returned(List(CollectProducts(containers, name_selector.s, price_selector.s)),
                           PyNone)

extract_products(page, container_selector, name_selector, price_selector) ==
    IF ~Compiles(container_selector) THEN Raised
    ELSE LET containers == Select(page, container_selector.s)
         IN  IF Len(containers) = 0
             THEN Returned(PyNone, Str(NoContainersMsg))
             ELSE IF ~Compiles(name_selector) \/ ~Compiles(price_selector)
             THEN Raised
             ELSE LET found == CollectProducts(containers, name_selector.s, price_selector.s)
                  IN  IF Len(found) = 0
                      THEN Returned(PyNone, Str(NoFieldsMsg))
                      ELSE Returned(List(found), PyNone)

-----------------------------------------------------------------------------
(* ask_ai_to_fix (agent.py:55-103) *)

\* One line of the oracle's reply text.
\*   fence      a line that starts with ``` ("```" or "```json")
\*   fencedjson a line "```<json>```": starts with ```, holds the object too
\*   prosefence prose that contains ``` but does not start with it
\*   prose      prose without ```
\*   blank      a whitespace-only line
\*   json       a line holding the complete JSON text of value v
Line(k, v) == [k |-> k, v |-> v]
Fence == Line("fence", PyNone)
FenceTag == Line("fence", Str("json"))
Prose == Line("prose", PyNone)
ProseFence == Line("prosefence", PyNone)
Blank == Line("blank", PyNone)
Json(v) == Line("json", v)
FencedJson(v) == Line("fencedjson", v)

\* Variant of StartsWithFence: only a line that is exactly ``` is dropped
StartsWithFenceExact(line) == line.k = "fence" /\ line.v = PyNone

StartsWithFence(line) == line.k \in {"fence", "fencedjson"}
ContainsFence(line) == line.k \in {"fence", "fencedjson", "prosefence"}

\* str.strip() of the whole reply (agent.py:91): leading and trailing
\* whitespace-only lines disappear
RECURSIVE DropLeadingBlank(_)
DropLeadingBlank(lines) ==
    IF lines # <<>> /\ Head(lines).k = "blank" THEN DropLeadingBlank(Tail(lines)) ELSE lines

RECURSIVE DropTrailingBlank(_)
DropTrailingBlank(lines) ==
    IF lines # <<>> /\ lines[Len(lines)].k = "blank"
    THEN DropTrailingBlank(SubSeq(lines, 1, Len(lines) - 1))
    ELSE lines

StripText(lines) == DropTrailingBlank(DropLeadingBlank(lines))

\* agent.py:93-95: when ``` occurs anywhere, drop the lines starting with ```
StripFences(lines) ==
    IF \E i \in 1..Len(lines) : ContainsFence(lines[i])
    THEN SelectSeq(lines, LAMBDA l : ~StartsWithFence(l))
    ELSE lines

ParseError == [t |-> "error"]

\* json.loads (agent.py:97): the text is one JSON value surrounded by
\* whitespace, or loads raises
json_loads(lines) ==
    LET rest == SelectSeq(lines, LAMBDA l : l.k # "blank")
    IN  IF Len(rest) = 1 /\ rest[1].k = "json" THEN rest[1].v ELSE ParseError

\* new_selectors[key] (agent.py:99-101) raises unless new_selectors is a dict
\* that has the key
HasItem(v, key) == v.t = "dict" /\ key \in DOMAIN v.f

Failed == [raised |-> TRUE, value |-> PyNone]
Answered(v) == [raised |-> FALSE, value |-> v]

\* agent.py:76: the cap of the page text put into the request
SnippetCap == 3000

\* Variant of Slice: the last n characters, text[-n:]
SliceTail(text, n) ==
    IF Len(text) <= n THEN text ELSE SubSeq(text, Len(text) - n + 1, Len(text))

\* text[:n] for n >= 0
Slice(text, n) == SubSeq(text, 1, IF Len(text) < n THEN Len(text) ELSE n)

\* agent.py:65-87: what the request states: the three selectors tried, the
\* error and the head of the page text
Prompt(html_chars, current, error_message) ==
    [ container |-> current.f["container"],
      name      |-> current.f["name"],
      price     |-> current.f["price"],
      error     |-> error_message,
      sample    |-> Slice(html_chars, SnippetCap) ]

\* reply: what client.messages.create did - raised (Unavailable) or returned
\* a text (a sequence of lines)
Unavailable == [t |-> "raise", lines |-> <<>>]
Text(lines) == [t |-> "text", lines |-> lines]

ask_ai_to_fix(html_snippet, current, error_message, reply) ==
    IF reply.t = "raise" THEN Failed
    ELSE LET response_text == StripFences(StripText(reply.lines))
             new_selectors == json_loads(response_text)
         IN  IF new_selectors = ParseError THEN Failed
             ELSE IF \A key \in Keys : HasItem(new_selectors, key)
             THEN Answered(new_selectors)
             ELSE Failed

-----------------------------------------------------------------------------
(* The replies the oracle can give *)

\* values a field of the answered object can hold: selectors, the empty
\* string, a number
FieldValues == {Str("a"), Str("b"), Str(""), Int5}

Rule(c, n, p) == Dict([k \in Keys |-> CASE k = "container" -> c [] k = "name" -> n [] OTHER -> p])

\* JSON values the reply can hold: every object of three selectors, objects
\* with one unusable field, objects lacking keys, an object with a fourth
\* key, and values that are no object
JsonValues ==
    { Dict(f) : f \in [Keys -> {Str(s) : s \in Selectors}] }
    \cup { Rule(v, Str("a"), Str("b")) : v \in FieldValues }
    \cup { Rule(Str("a"), v, Str("b")) : v \in FieldValues }
    \cup { Rule(Str("a"), Str("a"), v) : v \in FieldValues }
    \cup { Dict([k \in K |-> Str("a")]) : K \in (SUBSET Keys) \ {Keys} }
    \cup { Dict([k \in Keys \cup {"note"} |-> Str("a")]) }
    \cup { List(<<>>), Str("a"), Int5, PyNone }

Wrappings(v) ==
    { <<Json(v)>>,
      <<Fence, Json(v), Fence>>,
      <<FenceTag, Json(v), Fence>>,
      <<Blank, FenceTag, Json(v), Fence, Blank>>,
      <<Prose, FenceTag, Json(v), Fence>>,
      <<ProseFence, Json(v), Fence>>,
      <<FencedJson(v)>> }

Replies ==
    {Unavailable}
    \cup { Text(w) : w \in UNION { Wrappings(v) : v \in JsonValues } }
    \cup { Text(<<>>), Text(<<Prose>>) }

-----------------------------------------------------------------------------
(* run_agent (agent.py:106-149) *)

NoCall == [op |-> "none", raised |-> FALSE]

Init ==
    /\ max_retries \in 0..MaxRetriesBound
    /\ initial_selectors \in InitialRules
    /\ current_selectors = initial_selectors     \* agent.py:112
    /\ html = PyNone                             \* agent.py:113
    /\ attempt = 0
    /\ products = Unset
    /\ error = Unset
    /\ pc = "loop"
    /\ returned = Unset
    /\ fetchCalls = 0
    /\ extractCalls = 0
    /\ oracleCalls = 0
    /\ repairFailures = 0
    /\ lastCall = NoCall
    /\ docsGiven = {}

\* Variant of NeedsFetch: "if not html" instead of "if html is None"
NeedsFetchFalsy(h) == h = PyNone \/ h = EmptyPage

\* agent.py:120
NeedsFetch(h) == h = PyNone

\* Variant of MayRepair: "attempt <= max_retries"
MayRepairOffByOne(a, m) == a <= m

\* agent.py:140
MayRepair(a, m) == a < m

\* Variant of RangeHasNext: range(1, max_retries)
RangeOffByOne(a, m) == a + 1 < m

\* agent.py:115: range(1, max_retries + 1) has a value after a
RangeHasNext(a, m) == a + 1 < m + 1

\* Variant of LoopNext: the page is fetched on every attempt
LoopNextAlwaysFetch ==
    /\ pc = "loop"
    /\ RangeHasNext(attempt, max_retries)
    /\ attempt' = attempt + 1
    /\ pc' = "fetch"
    /\ UNCHANGED <<max_retries, initial_selectors, current_selectors, html, products,
                   error, returned, fetchCalls, extractCalls, oracleCalls,
                   repairFailures, lastCall, docsGiven>>

\* agent.py:115: the next value of range(1, max_retries + 1)
LoopNext ==
    /\ pc = "loop"
    /\ RangeHasNext(attempt, max_retries)
    /\ attempt' = attempt + 1
    /\ pc' = IF NeedsFetch(html) THEN "fetch" ELSE "extract"
    /\ UNCHANGED <<max_retries, initial_selectors, current_selectors, html, products,
                   error, returned, fetchCalls, extractCalls, oracleCalls,
                   repairFailures, lastCall, docsGiven>>

\* Variant of LoopExit: "return error" instead of "return None"
LoopExitReturnsError ==
    /\ pc = "loop"
    /\ ~RangeHasNext(attempt, max_retries)
    /\ pc' = "GaveUp"
    /\ returned' = error
    /\ UNCHANGED <<max_retries, initial_selectors, current_selectors, html, attempt,
                   products, error, fetchCalls, extractCalls, oracleCalls,
                   repairFailures, lastCall, docsGiven>>

\* agent.py:148-149: the range is exhausted
LoopExit ==
    /\ pc = "loop"
    /\ ~RangeHasNext(attempt, max_retries)
    /\ pc' = "GaveUp"
    /\ returned' = PyNone
    /\ UNCHANGED <<max_retries, initial_selectors, current_selectors, html, attempt,
                   products, error, fetchCalls, extractCalls, oracleCalls,
                   repairFailures, lastCall, docsGiven>>

\* agent.py:121-122: fetch_webpage returns the page text
FetchOk ==
    /\ pc = "fetch"
    /\ \E page \in Pages : html' = page
    /\ fetchCalls' = fetchCalls + 1
    /\ lastCall' = [op |-> "fetch", raised |-> FALSE]
    /\ pc' = "extract"
    /\ UNCHANGED <<max_retries, initial_selectors, current_selectors, attempt, products,
                   error, returned, extractCalls, oracleCalls, repairFailures, docsGiven>>

\* Variant of FetchRaises: the exception is swallowed and the loop goes on
FetchRaisesContinue ==
    /\ pc = "fetch"
    /\ fetchCalls' = fetchCalls + 1
    /\ lastCall' = [op |-> "fetch", raised |-> TRUE]
    /\ pc' = "loop"
    /\ UNCHANGED <<max_retries, initial_selectors, current_selectors, html, attempt,
                   products, error, returned, extractCalls, oracleCalls, repairFailures,
                   docsGiven>>

\* agent.py:123-125: fetch_webpage raises
FetchRaises ==
    /\ pc = "fetch"
    /\ fetchCalls' = fetchCalls + 1
    /\ lastCall' = [op |-> "fetch", raised |-> TRUE]
    /\ pc' = "FetchFailed"
    /\ returned' = PyNone
    /\ UNCHANGED <<max_retries, initial_selectors, current_selectors, html, attempt,
                   products, error, extractCalls, oracleCalls, repairFailures, docsGiven>>

\* Variant of Extract: a success is kept but the loop is not left before the
\* last attempt
ExtractNoEarlyReturn ==
    /\ pc = "extract"
    /\ LET r == extract_products(html, current_selectors.f["container"],
                                 current_selectors.f["name"], current_selectors.f["price"])
       IN  /\ extractCalls' = extractCalls + 1
           /\ docsGiven' = docsGiven \cup {html}
           /\ lastCall' = [op |-> "extract", html |-> html, selectors |-> current_selectors,
                           raised |-> r.raised, products |-> r.products, error |-> r.error]
           /\ IF r.raised
              THEN /\ pc' = "Crashed"
                   /\ UNCHANGED <<products, error, returned>>
              ELSE /\ products' = r.products
                   /\ error' = r.error
                   /\ IF Truthy(r.products) /\ ~MayRepair(attempt, max_retries)
                      THEN pc' = "Success" /\ returned' = r.products
                      ELSE /\ pc' = IF MayRepair(attempt, max_retries) /\ ~Truthy(r.products)
                                    THEN "repair" ELSE "loop"
                           /\ UNCHANGED returned
    /\ UNCHANGED <<max_retries, initial_selectors, current_selectors, html, attempt,
                   fetchCalls, oracleCalls, repairFailures>>

\* agent.py:127-140: extract_products and the branch on its result.  An
\* exception of extract_products is caught nowhere and leaves run_agent.
Extract ==
    /\ pc = "extract"
    /\ LET r == extract_products(html, current_selectors.f["container"],
                                 current_selectors.f["name"], current_selectors.f["price"])
       IN  /\ extractCalls' = extractCalls + 1
           /\ docsGiven' = docsGiven \cup {html}
           /\ lastCall' = [op |-> "extract", html |-> html, selectors |-> current_selectors,
                           raised |-> r.raised, products |-> r.products, error |-> r.error]
           /\ IF r.raised
              THEN /\ pc' = "Crashed"
                   /\ UNCHANGED <<products, error, returned>>
              ELSE /\ products' = r.products
                   /\ error' = r.error
                   /\ IF Truthy(r.products)
                      THEN pc' = "Success" /\ returned' = r.products
                      ELSE /\ pc' = IF MayRepair(attempt, max_retries) THEN "repair" ELSE "loop"
                           /\ UNCHANGED returned
    /\ UNCHANGED <<max_retries, initial_selectors, current_selectors, html, attempt,
                   fetchCalls, oracleCalls, repairFailures>>

\* Variant of Repair: an exception of ask_ai_to_fix ends the run
RepairGivesUpOnFailure ==
    /\ pc = "repair"
    /\ \E reply \in Replies :
          LET r == ask_ai_to_fix(html, current_selectors, error, reply)
          IN  /\ current_selectors' = IF r.raised THEN current_selectors ELSE r.value
              /\ repairFailures' = IF r.raised THEN repairFailures + 1 ELSE repairFailures
              /\ lastCall' = [op |-> "oracle", html |-> html, selectors |-> current_selectors,
                              error |-> error, raised |-> r.raised, value |-> r.value]
              /\ pc' = IF r.raised THEN "GaveUp" ELSE "loop"
              /\ returned' = IF r.raised THEN PyNone ELSE returned
    /\ oracleCalls' = oracleCalls + 1
    /\ docsGiven' = docsGiven \cup {html}
    /\ UNCHANGED <<max_retries, initial_selectors, html, attempt, products, error,
                   fetchCalls, extractCalls>>

\* Variant of Repair: after an exception the oracle is asked again at once
RepairRetriesOracle ==
    /\ pc = "repair"
    /\ \E reply \in Replies :
          LET r == ask_ai_to_fix(html, current_selectors, error, reply)
          IN  /\ current_selectors' = IF r.raised THEN current_selectors ELSE r.value
              /\ repairFailures' = IF r.raised THEN repairFailures + 1 ELSE repairFailures
              /\ lastCall' = [op |-> "oracle", html |-> html, selectors |-> current_selectors,
                              error |-> error, raised |-> r.raised, value |-> r.value]
              /\ pc' = IF r.raised /\ repairFailures = 0 THEN "repair" ELSE "loop"
    /\ oracleCalls' = oracleCalls + 1
    /\ docsGiven' = docsGiven \cup {html}
    /\ UNCHANGED <<max_retries, initial_selectors, html, attempt, products, error,
                   returned, fetchCalls, extractCalls>>

\* Variant of Repair: only the container selector of the answer is taken
\* over (current_selectors['container'] = new_selectors['container'])
RepairUpdatesContainerOnly ==
    /\ pc = "repair"
    /\ \E reply \in Replies :
          LET r == ask_ai_to_fix(html, current_selectors, error, reply)
          IN  /\ current_selectors' =
                    IF r.raised THEN current_selectors
                    ELSE Dict([current_selectors.f EXCEPT !["container"] = r.value.f["container"]])
              /\ repairFailures' = IF r.raised THEN repairFailures + 1 ELSE repairFailures
              /\ lastCall' = [op |-> "oracle", html |-> html, selectors |-> current_selectors,
                              error |-> error, raised |-> r.raised, value |-> r.value]
    /\ oracleCalls' = oracleCalls + 1
    /\ docsGiven' = docsGiven \cup {html}
    /\ pc' = "loop"
    /\ UNCHANGED <<max_retries, initial_selectors, html, attempt, products, error,
                   returned, fetchCalls, extractCalls>>

\* agent.py:141-146: ask_ai_to_fix inside try/except Exception
Repair ==
    /\ pc = "repair"
    /\ \E reply \in Replies :
          LET r == ask_ai_to_fix(html, current_selectors, error, reply)
          IN  /\ current_selectors' = IF r.raised THEN current_selectors ELSE r.value
              /\ repairFailures' = IF r.raised THEN repairFailures + 1 ELSE repairFailures
              /\ lastCall' = [op |-> "oracle", html |-> html, selectors |-> current_selectors,
                              error |-> error, raised |-> r.raised, value |-> r.value]
    /\ oracleCalls' = oracleCalls + 1
    /\ docsGiven' = docsGiven \cup {html}
    /\ pc' = "loop"
    /\ UNCHANGED <<max_retries, initial_selectors, html, attempt, products, error,
                   returned, fetchCalls, extractCalls>>

Next == LoopNext \/ LoopExit \/ FetchOk \/ FetchRaises \/ Extract \/ Repair

Spec == Init /\ [][Next]_vars

Terminal == pc \in {"Success", "GaveUp", "FetchFailed", "Crashed"}

-----------------------------------------------------------------------------
(* ask_ai_to_fix on its own: one call, on a page given as its characters *)

SlackLen == 1     \* page lengths range over 0..SlackLen and SnippetCap -/+ SlackLen

DocLengths == (0..SlackLen) \cup ((SnippetCap - SlackLen)..(SnippetCap + SlackLen))

\* markup of the given length: a "<" at every k-th position
Markup(len, k) == [i \in 1..len |-> IF i % k = 0 THEN "<" ELSE "x"]

TextPages == { [t |-> "str", chars |-> Markup(len, k)] : len \in DocLengths, k \in {2, 3} }

\* the rules that failed, as ask_ai_to_fix is given them
FailedRules == { Rule(Str("a"), Str("a"), Str("b")), Rule(Str("b"), Str("b"), Str("a")) }

InitAdapter ==
    /\ html \in TextPages
    /\ current_selectors \in FailedRules
    /\ error \in {Str(NoContainersMsg), Str(NoFieldsMsg)}
    /\ initial_selectors = current_selectors
    /\ max_retries = 0
    /\ attempt = 0
    /\ products = PyNone
    /\ pc = "ask"
    /\ returned = Unset
    /\ fetchCalls = 0
    /\ extractCalls = 0
    /\ oracleCalls = 0
    /\ repairFailures = 0
    /\ lastCall = NoCall
    /\ docsGiven = {}

\* agent.py:55-103: one call of ask_ai_to_fix, from the request to the return
Ask ==
    /\ pc = "ask"
    /\ \E reply \in Replies :
          LET r == ask_ai_to_fix(html, current_selectors, error, reply)
          IN  lastCall' = [op |-> "ask", raised |-> r.raised, value |-> r.value,
                           reply |-> reply,
                           prompt |-> Prompt(html.chars, current_selectors, error)]
    /\ oracleCalls' = oracleCalls + 1
    /\ pc' = "asked"
    /\ UNCHANGED <<max_retries, initial_selectors, current_selectors, html, attempt,
                   products, error, returned, fetchCalls, extractCalls, repairFailures,
                   docsGiven>>

SpecAdapter == InitAdapter /\ [][Ask]_vars

-----------------------------------------------------------------------------
(* Claims *)

\* C1: in a run with max_retries >= 1 the number of extract_products calls
\* never exceeds max_retries and the number of ask_ai_to_fix calls never
\* exceeds max_retries - 1.
C1_CallBudget ==
    max_retries >= 1 =>
        /\ extractCalls <= max_retries
        /\ oracleCalls <= max_retries - 1

\* a run that used its whole budget of calls
C1_Witness ==
    /\ max_retries >= 3
    /\ extractCalls = max_retries
    /\ oracleCalls = max_retries - 1

C3_FetchFailureIsFatal ==
    /\ (lastCall.op = "fetch" /\ lastCall.raised) =>
          /\ pc = "FetchFailed"
          /\ returned = PyNone
    /\ pc = "FetchFailed" =>
          /\ fetchCalls = 1
          /\ extractCalls = 0
          /\ oracleCalls = 0
          /\ lastCall.op = "fetch" /\ lastCall.raised

C3_Witness == pc = "FetchFailed" /\ max_retries >= 2 /\ attempt = 1

\* C4: Success is entered by the first extract_products call that returns
\* products, and returns exactly these; when no repair failed and this is
\* attempt k, k extractor calls and k - 1 oracle calls were made; nothing is
\* called after the successful extraction.
C4_SuccessProps ==
    pc = "Success" =>
        /\ lastCall.op = "extract"
        /\ ~lastCall.raised
        /\ Truthy(lastCall.products)
        /\ returned = lastCall.products
        /\ products = returned
        /\ 1 <= attempt /\ attempt <= max_retries
        /\ repairFailures = 0 =>
              /\ extractCalls = attempt
              /\ oracleCalls = attempt - 1

C4_SuccessIsFinal ==
    [][pc = "Success" =>
          /\ pc' = "Success"
          /\ UNCHANGED <<extractCalls, oracleCalls, fetchCalls, returned>>]_vars

C4_Success == []C4_SuccessProps /\ C4_SuccessIsFinal

\* a success at a later attempt, after repairs that all returned a rule
C4_Witness ==
    /\ pc = "Success"
    /\ attempt = 3
    /\ repairFailures = 0
    /\ oracleCalls = 2

\* C5: with max_retries = N >= 1, when every extraction fails and every
\* repair returns a rule, the run ends in GaveUp after exactly N extractor
\* calls and N - 1 oracle calls, and the last call is the failed extraction
\* of attempt N.
C5_BudgetExhaustion ==
    (pc = "GaveUp" /\ max_retries >= 1 /\ repairFailures = 0) =>
        /\ extractCalls = max_retries
        /\ oracleCalls = max_retries - 1
        /\ attempt = max_retries
        /\ lastCall.op = "extract"
        /\ ~lastCall.raised
        /\ ~Truthy(lastCall.products)
        /\ returned = PyNone

C5_Witness ==
    /\ pc = "GaveUp"
    /\ max_retries = 3
    /\ repairFailures = 0
    /\ extractCalls = 3
    /\ oracleCalls = 2

C7_NoUnhandledFault == pc # "Crashed"

\* A rule as the data model defines it: exactly the keys container, name
\* and price, each a non-empty string.
WellFormedRule(r) ==
    /\ r.t = "dict"
    /\ DOMAIN r.f = Keys
    /\ \A k \in Keys : r.f[k].t = "str" /\ r.f[k].s # ""

\* C8: every rule extract_products is called with, and every rule that
\* becomes current_selectors, is well formed.
C8_RuleWellFormed ==
    /\ WellFormedRule(current_selectors)
    /\ lastCall.op = "extract" => WellFormedRule(lastCall.selectors)

\* C9 as stated: every run fetches exactly once, before any extractor or
\* oracle call, and never a second time.
C9_Original ==
    /\ fetchCalls <= 1
    /\ (extractCalls + oracleCalls > 0) => fetchCalls = 1
    /\ lastCall.op = "fetch" => (extractCalls = 0 /\ oracleCalls = 0)
    /\ Terminal => fetchCalls = 1

\* C9 amended: a run with max_retries >= 1 fetches exactly once, in its
\* first attempt, before any extractor or oracle call, and never a second
\* time; a run with max_retries = 0 makes no fetch at all.
C9_FetchOnce ==
    /\ fetchCalls <= 1
    /\ (extractCalls + oracleCalls > 0) => fetchCalls = 1
    /\ lastCall.op = "fetch" => (extractCalls = 0 /\ oracleCalls = 0 /\ attempt = 1)
    /\ (Terminal /\ max_retries >= 1) => fetchCalls = 1
    /\ max_retries = 0 => fetchCalls = 0

\* a run that went through three attempts on one fetch
C9_Witness ==
    /\ Terminal
    /\ attempt = 3
    /\ extractCalls = 3
    /\ fetchCalls = 1

\* C10: every extract_products call and every ask_ai_to_fix call of a run
\* is given the same html, the one the single fetch returned.
C10_SameDocument ==
    /\ Cardinality(docsGiven) <= 1
    /\ docsGiven \subseteq {html}
    /\ docsGiven \subseteq Pages
    /\ lastCall.op \in {"extract", "oracle"} => lastCall.html = html

\* an extraction, a repair and a second extraction, on a page the first
\* rule fails on
C10_Witness ==
    /\ extractCalls = 2
    /\ oracleCalls = 1
    /\ lastCall.op = "extract"
    /\ docsGiven = {html}

\* C11: every ask_ai_to_fix call comes directly after an extract_products
\* call that returned a failure, and is given the html, the selectors and
\* the error of that call; the call after an ask_ai_to_fix call is never
\* another ask_ai_to_fix call.
C11_RepairFollowsFailedExtract ==
    [][oracleCalls' # oracleCalls =>
          /\ lastCall.op = "extract"
          /\ ~lastCall.raised
          /\ ~Truthy(lastCall.products)
          /\ lastCall.error \in {Str(NoContainersMsg), Str(NoFieldsMsg)}
          /\ lastCall'.op = "oracle"
          /\ lastCall'.selectors = lastCall.selectors
          /\ lastCall'.error = lastCall.error
          /\ lastCall'.html = lastCall.html]_vars

C11_Alternate ==
    [][(lastCall.op = "oracle" /\ lastCall' # lastCall) => lastCall'.op = "extract"]_vars

C11_ExtractRepairAlternate == C11_RepairFollowsFailedExtract /\ C11_Alternate

\* a second oracle call, after the second failed extraction
C11_Witness ==
    /\ lastCall.op = "oracle"
    /\ oracleCalls = 2
    /\ extractCalls = 2
    /\ lastCall.error = Str(NoFieldsMsg)

\* C19: current_selectors changes only in a repair step whose ask_ai_to_fix
\* call returned, and then becomes exactly the returned object, which is
\* what the next extract_products call is given; a repair step whose call
\* raised leaves it unchanged; initial_selectors is never changed.
C19_RuleChange ==
    [][/\ current_selectors' # current_selectors =>
             /\ oracleCalls' = oracleCalls + 1
             /\ lastCall'.op = "oracle"
             /\ ~lastCall'.raised
       /\ (oracleCalls' # oracleCalls /\ ~lastCall'.raised) =>
             current_selectors' = lastCall'.value
       /\ (oracleCalls' # oracleCalls /\ lastCall'.raised) =>
             current_selectors' = current_selectors
       /\ extractCalls' # extractCalls => lastCall'.selectors = current_selectors
       /\ initial_selectors' = initial_selectors]_vars

C19_StartsFromInitial == oracleCalls = 0 => current_selectors = initial_selectors

C19_WholeReplacement == []C19_StartsFromInitial /\ C19_RuleChange

\* an extraction with a rule that differs from the initial one in the name
\* selector only
C19_Witness ==
    /\ lastCall.op = "extract"
    /\ lastCall.selectors # initial_selectors
    /\ lastCall.selectors.f["container"] = initial_selectors.f["container"]
    /\ lastCall.selectors.f["name"] # initial_selectors.f["name"]
    /\ current_selectors = lastCall.selectors

-----------------------------------------------------------------------------
(* Claims about extract_products, stated of every call the run makes *)

\* the arguments of the extract_products call recorded in lastCall
CallContainer == lastCall.selectors.f["container"]
CallName == lastCall.selectors.f["name"]
CallPrice == lastCall.selectors.f["price"]

\* an extract_products call whose three selectors are selectors
ExtractCall ==
    /\ lastCall.op = "extract"
    /\ Compiles(CallContainer) /\ Compiles(CallName) /\ Compiles(CallPrice)

\* the field is present in the container: an element matches its selector
Present(container, sel) == container.kids[sel] # PyNone

\* the field resolves to non-empty trimmed text
Resolves(container, sel) ==
    Present(container, sel) /\ Strip(container.kids[sel].text) # ""

Matched == SelectSeq(lastCall.html.elems, LAMBDA e : e.tag = CallContainer.s)

BothPresent ==
    SelectSeq(Matched, LAMBDA e : Present(e, CallName.s) /\ Present(e, CallPrice.s))

BothResolve ==
    SelectSeq(Matched, LAMBDA e : Resolves(e, CallName.s) /\ Resolves(e, CallPrice.s))

RecordOf(e) == Product(Strip(e.kids[CallName.s].text), Strip(e.kids[CallPrice.s].text))

\* C12 as stated: when at least one container has both fields present, the
\* call returns records, one per container with both fields present, in
\* document order, none with an empty name or price.
C12_Original ==
    (ExtractCall /\ Len(BothPresent) >= 1) =>
        /\ ~lastCall.raised
        /\ lastCall.products.t = "list"
        /\ lastCall.products.items = [i \in 1..Len(BothPresent) |-> RecordOf(BothPresent[i])]
        /\ \A i \in 1..Len(lastCall.products.items) :
              lastCall.products.items[i].name # "" /\ lastCall.products.items[i].price # ""

\* C12 amended: when at least one container has a name and a price that
\* both resolve to non-empty trimmed text, the call returns records, one per
\* such container, in document order, none with an empty name or price; a
\* container whose name or price element is present but has empty text is
\* skipped like one whose element is absent.
C12_Records ==
    (ExtractCall /\ Len(BothResolve) >= 1) =>
        /\ ~lastCall.raised
        /\ lastCall.error = PyNone
        /\ lastCall.products.t = "list"
        /\ lastCall.products.items = [i \in 1..Len(BothResolve) |-> RecordOf(BothResolve[i])]
        /\ \A i \in 1..Len(lastCall.products.items) :
              lastCall.products.items[i].name # "" /\ lastCall.products.items[i].price # ""

\* two different records in document order, and a page with a container
\* whose name is present but empty
C12_Witness ==
    /\ ExtractCall
    /\ lastCall.products.t = "list"
    /\ Len(lastCall.products.items) = 2
    /\ lastCall.products.items[1] # lastCall.products.items[2]

C12_WitnessSkipped ==
    /\ ExtractCall
    /\ lastCall.products.t = "list"
    /\ Len(BothPresent) = 2
    /\ Len(lastCall.products.items) = 1

\* C13: when no element matches the container selector, the call returns
\* the NoContainers failure and no records, whatever the name and price
\* selectors are: they are not evaluated.
C13_NoContainers ==
    (lastCall.op = "extract" /\ Compiles(CallContainer) /\ Len(Matched) = 0) =>
        /\ ~lastCall.raised
        /\ lastCall.products = PyNone
        /\ lastCall.error = Str(NoContainersMsg)

\* no container matches and the name selector is the empty string
C13_Witness ==
    /\ lastCall.op = "extract"
    /\ Compiles(CallContainer)
    /\ Len(Matched) = 0
    /\ ~Compiles(CallName)
    /\ lastCall.error = Str(NoContainersMsg)

\* C14: when containers match and each of them lacks the name or the price
\* element, the call returns the NoFieldsExtracted failure, which differs
\* from the NoContainers failure, and no records; every call with three
\* selectors returns either a non-empty list and no error, or no list and
\* an error.
C14_ExactlyOne ==
    ExtractCall =>
        /\ ~lastCall.raised
        /\ (lastCall.products = PyNone) # (lastCall.error = PyNone)
        /\ lastCall.products # PyNone =>
              lastCall.products.t = "list" /\ Len(lastCall.products.items) >= 1
        /\ lastCall.error # PyNone => lastCall.error.t = "str"
        /\ (Len(Matched) >= 1 /\ Len(BothPresent) = 0) =>
              /\ lastCall.products = PyNone
              /\ lastCall.error = Str(NoFieldsMsg)
              /\ lastCall.error # Str(NoContainersMsg)

\* two matched containers, neither with a price element
C14_Witness ==
    /\ ExtractCall
    /\ Len(Matched) = 2
    /\ \A i \in 1..2 : ~Present(Matched[i], CallPrice.s)
    /\ lastCall.error = Str(NoFieldsMsg)

\* what extract_products returns for a page and a rule of InitialRules
ResultOf(page, rule) ==
    extract_products(page, rule.f["container"], rule.f["name"], rule.f["price"])

-----------------------------------------------------------------------------
(* Claims about ask_ai_to_fix, checked under SpecAdapter *)

\* the replies that hold the object v between an opening fence line, with
\* or without a language tag, and a closing fence line
FencedReplies(v) ==
    { Text(<<Fence, Json(v), Fence>>),
      Text(<<FenceTag, Json(v), Fence>>),
      Text(<<Blank, FenceTag, Json(v), Fence, Blank>>) }

\* C16: a reply that holds a well-formed rule object between fence lines is
\* parsed to that object, as the reply that holds the object alone is.
C16_FencesStripped ==
    lastCall.op = "ask" =>
        \A v \in JsonValues :
            (WellFormedRule(v) /\ lastCall.reply \in FencedReplies(v) \cup {Text(<<Json(v)>>)}) =>
                /\ ~lastCall.raised
                /\ lastCall.value = v
                /\ lastCall.value =
                      ask_ai_to_fix(html, current_selectors, error, Text(<<Json(v)>>)).value

\* a rule answered between ```json and ```
C16_Witness ==
    /\ lastCall.op = "ask"
    /\ ~lastCall.raised
    /\ WellFormedRule(lastCall.value)
    /\ lastCall.reply = Text(<<FenceTag, Json(lastCall.value), Fence>>)

\* C17: the page text in the request is the first min(L, 3000) characters
\* of the page text of length L.
C17_SamplePrefix ==
    lastCall.op = "ask" =>
        LET sample == lastCall.prompt.sample
            L == Len(html.chars)
        IN  /\ Len(sample) = IF L < 3000 THEN L ELSE 3000
            /\ \A i \in 1..Len(sample) : sample[i] = html.chars[i]

\* a page longer than the cap, cut
C17_Witness ==
    /\ lastCall.op = "ask"
    /\ Len(html.chars) > 3000
    /\ Len(lastCall.prompt.sample) = 3000

-----------------------------------------------------------------------------
(* Termination of run_agent, checked under Spec *)

\* C20: a run that has stopped is in Success, GaveUp or FetchFailed; the
\* attempt counter never exceeds max_retries and is the number of
\* extract_products calls made so far whenever such a call has just been
\* made, so it grows by exactly 1 from one call to the next.
C20_Terminates ==
    /\ (~ENABLED Next) => pc \in {"Success", "GaveUp", "FetchFailed"}
    /\ attempt <= max_retries
    /\ lastCall.op = "extract" => extractCalls = attempt

====
